---- MODULE Spec2Model ----
(***************************************************************************)
(* A model of the quadtree pipeline of src/main.cpp:                       *)
(*   QuadTree tree(square); tree.merge_leaves(); tree.simplify();          *)
(* The tree is kept as a map from node numbers to QuadTree::Type.  Node 0  *)
(* is the root and the children of node n are 4n+1 .. 4n+4, in the order   *)
(* of QuadTree::children.  A node is in the map's domain once it has been  *)
(* allocated, so "children[i] is a null pointer" is "4n+i+1 is not in the  *)
(* domain".  merge_leaves and merge_with_sibblings only assign `type`:     *)
(* they never reset a child pointer, so the domain is fixed by the build.  *)
(***************************************************************************)
EXTENDS Integers, Sequences, FiniteSets, TLC

\* ------------------------------------------------------------------ bounds

\* At most MaxOdd samples of the matrix differ from its background.
MaxOdd == 0

\* ------------------------------------------------------- program constants

UNDEFINED_TREE == -1
BLACK_TREE == 0
GREY_TREE == 1
WHITE_TREE == 2
SPLIT_TREE == 3

\* static const size_t maximum_encoded_size = 903
DefaultEncodedSize == 903
\* size_t QuadTree::minimum_cell_size = 64
DefaultCellSize == 64
\* if (maximum_detail_loss > 4) throw
DetailLossLimit == 4

LeafTypes == {BLACK_TREE, GREY_TREE, WHITE_TREE}

\* ------------------------------------------------------------------ inputs

\* Brightness samples around the two thresholds 255/5 = 51 and 255*3/5 = 153.
Samples == {50, 51, 153}
\* Side lengths of the square input matrix.
Sides == {1, 2, 4}
\* The cell size is read from argv[1]; 64 is the default.
CellSizes == {1, 2, DefaultCellSize}
\* The budget is a compile-time constant, 903; the smaller values put it in
\* reach of matrices of side 4 (a leaf costs 2, the full tree of side 4
\* costs 32).
Budgets == {1, 2, 8, DefaultEncodedSize}

Cells(s) == (0 .. s - 1) \X (0 .. s - 1)

\* The quadrant of the matrix a cell lies in, numbered like the children of
\* the root.
Quadrant(s, c) ==
  (IF 2 * c[1] >= s THEN 1 ELSE 0) + (IF 2 * c[2] >= s THEN 2 ELSE 0)

\* A background: the quadrants below k are a checkerboard of a and b, the
\* others are flat a.
Background(s, a, b, k) ==
  [c \in Cells(s) |->
     IF Quadrant(s, c) < k /\ (c[1] + c[2]) % 2 = 1 THEN b ELSE a]

RECURSIVE Painted(_, _)
Painted(s, odd) ==
  IF odd = 0
    THEN {Background(s, a, b, k) : a \in Samples, b \in Samples, k \in 0 .. 4}
    ELSE LET P == Painted(s, odd - 1)
         IN  P \cup {[m EXCEPT ![c] = v] : m \in P, c \in Cells(s), v \in Samples}

\* ------------------------------------------------------------------- state

VARIABLES
  pc,                    \* position in main()
  matrix,                \* Matrix<uint8_t> square
  size,                  \* square.get_width()
  minimum_cell_size,     \* QuadTree::minimum_cell_size
  maximum_encoded_size,  \* QuadTree::maximum_encoded_size
  type,                  \* QuadTree::type of every allocated node
  leaves,                \* simplify(): the snapshot `leaves`
  current_size,          \* simplify(): current_size
  last_size,             \* simplify(): last_size
  maximum_detail_loss,   \* simplify(): maximum_detail_loss
  built,                 \* history: `type` as the constructor left it
  entry,                 \* history: `type` when simplify() was called
  attempt_size           \* history: encoded_size() of the root when the last
                         \* leaf was chosen, 0 before any choice

vars == <<pc, matrix, size, minimum_cell_size, maximum_encoded_size, type,
          leaves, current_size, last_size, maximum_detail_loss,
          built, entry, attempt_size>>

\* ---------------------------------------------------------------- the tree

Root == 0
Child(n, i) == 4 * n + i + 1
Parent(n) == (n - 1) \div 4
NullNode == -1

\* children[0..3] of n are non-null
HasChildren(t, n) == Child(n, 0) \in DOMAIN t

classify(value) ==
  IF value < (255 * 1) \div 5 THEN BLACK_TREE
  ELSE IF value < (255 * 3) \div 5 THEN GREY_TREE
  ELSE WHITE_TREE

\* QuadTree::init: the nodes of the subtree at n with their types, as a set
\* of <<node, type>> pairs.
RECURSIVE init(_, _, _, _, _)
init(m, x, y, sz, n) ==
  IF sz <= minimum_cell_size
    THEN {<<n, classify(m[<<x, y>>])>>}
    ELSE LET half == sz \div 2
         IN  {<<n, SPLIT_TREE>>}
               \cup init(m, x, y, half, Child(n, 0))
               \cup init(m, x + half, y, half, Child(n, 1))
               \cup init(m, x, y + half, half, Child(n, 2))
               \cup init(m, x + half, y + half, half, Child(n, 3))

\* QuadTree(const Matrix<T>&): the map the pairs of init describe.
Construct(m) ==
  LET pairs == init(m, 0, 0, size, Root)
      nodes == {p[1] : p \in pairs}
  IN  [n \in nodes |-> (CHOOSE p \in pairs : p[1] = n)[2]]

\* QuadTree::encoded_size.  It throws on UNDEFINED_TREE, a type no node has
\* once the constructor has run; 0 stands for the throw.
RECURSIVE encoded_size(_, _)
encoded_size(t, n) ==
  IF t[n] \in LeafTypes THEN 2
  ELSE IF t[n] = SPLIT_TREE
    THEN IF HasChildren(t, n)
           THEN encoded_size(t, Child(n, 0)) + encoded_size(t, Child(n, 1))
                  + encoded_size(t, Child(n, 2)) + encoded_size(t, Child(n, 3))
           ELSE 0
  ELSE 0

\* mean_type without the division by 4.
RECURSIVE mean_type_sum(_, _)
mean_type_sum(t, n) ==
  IF t[n] = SPLIT_TREE
    THEN mean_type_sum(t, Child(n, 0)) + mean_type_sum(t, Child(n, 1))
           + mean_type_sum(t, Child(n, 2)) + mean_type_sum(t, Child(n, 3))
    ELSE t[n]

\* QuadTree::mean_type.  It throws on UNDEFINED_TREE, a type no node has once
\* the constructor has run; the type itself stands for the throw.
RECURSIVE mean_type(_, _)
mean_type(t, n) ==
  IF t[n] = SPLIT_TREE
    THEN (mean_type(t, Child(n, 0)) + mean_type(t, Child(n, 1))
            + mean_type(t, Child(n, 2)) + mean_type(t, Child(n, 3))) \div 4
    ELSE t[n]

\* merge_leaves that compares the children before it has merged them.
RECURSIVE merge_leaves_preorder(_, _)
merge_leaves_preorder(t, n) ==
  IF t[n] # SPLIT_TREE
    THEN t
    ELSE LET types == {t[Child(n, i)] : i \in 0 .. 3}
             tn == IF Cardinality(types) # 1 \/ types = {SPLIT_TREE}
                     THEN t
                     ELSE [t EXCEPT ![n] = CHOOSE x \in types : TRUE]
             t0 == merge_leaves_preorder(tn, Child(n, 0))
             t1 == merge_leaves_preorder(t0, Child(n, 1))
             t2 == merge_leaves_preorder(t1, Child(n, 2))
         IN  merge_leaves_preorder(t2, Child(n, 3))

\* merge_leaves with `&&` for `||` in its test: it takes types[0], the least
\* type of the children, unless that is the only one and SPLIT_TREE.
RECURSIVE merge_leaves_and(_, _)
merge_leaves_and(t, n) ==
  IF t[n] # SPLIT_TREE
    THEN t
    ELSE LET t0 == merge_leaves_and(t, Child(n, 0))
             t1 == merge_leaves_and(t0, Child(n, 1))
             t2 == merge_leaves_and(t1, Child(n, 2))
             t3 == merge_leaves_and(t2, Child(n, 3))
             types == {t3[Child(n, i)] : i \in 0 .. 3}
             least == CHOOSE x \in types : \A y \in types : x <= y
         IN  IF Cardinality(types) # 1 /\ least = SPLIT_TREE
               THEN t3
               ELSE [t3 EXCEPT ![n] = least]

\* QuadTree::merge_leaves on node n: the types afterwards.
RECURSIVE merge_leaves(_, _)
merge_leaves(t, n) ==
  IF t[n] # SPLIT_TREE
    THEN t
    ELSE LET t0 == merge_leaves(t, Child(n, 0))
             t1 == merge_leaves(t0, Child(n, 1))
             t2 == merge_leaves(t1, Child(n, 2))
             t3 == merge_leaves(t2, Child(n, 3))
             types == {t3[Child(n, i)] : i \in 0 .. 3}
         IN  IF Cardinality(types) # 1 \/ types = {SPLIT_TREE}
               THEN t3
               ELSE [t3 EXCEPT ![n] = CHOOSE x \in types : TRUE]

\* QuadTree::get_leaves(result) on node n, whose children are non-null: the
\* nodes pushed, in order.  The type of n itself is not looked at.
RECURSIVE get_leaves(_, _)
get_leaves(t, n) ==
  LET visit(c) == IF t[c] = SPLIT_TREE THEN get_leaves(t, c) ELSE <<c>>
  IN  visit(Child(n, 0)) \o visit(Child(n, 1))
        \o visit(Child(n, 2)) \o visit(Child(n, 3))

\* What stands for `return false` in the loop of merge_with_sibblings.
Refused == -1

\* The loop of merge_with_sibblings with sibbling->type taken for a split
\* sibbling too, in place of its mean_type().
RECURSIVE sibblings_raw(_, _, _, _, _, _)
sibblings_raw(t, p, maximum, i, sibbling_splits, sum) ==
  IF i = 4 THEN sum
  ELSE LET sibbling == Child(p, i)
       IN  IF t[sibbling] = SPLIT_TREE /\ sibbling_splits + 1 > maximum
             THEN Refused
             ELSE sibblings_raw(t, p, maximum, i + 1,
                                IF t[sibbling] = SPLIT_TREE
                                  THEN sibbling_splits + 1
                                  ELSE sibbling_splits,
                                sum + t[sibbling])

\* The loop of merge_with_sibblings over parent->children[i .. 3]: the sum of
\* types[0 .. 3], or Refused where the loop returns false.
RECURSIVE sibblings(_, _, _, _, _, _)
sibblings(t, p, maximum, i, sibbling_splits, sum) ==
  IF i = 4 THEN sum
  ELSE LET sibbling == Child(p, i)
       IN  IF t[sibbling] = SPLIT_TREE
             THEN IF sibbling_splits + 1 > maximum
                    THEN Refused
                    ELSE sibblings(t, p, maximum, i + 1, sibbling_splits + 1,
                                   sum + mean_type(t, sibbling))
             ELSE sibblings(t, p, maximum, i + 1, sibbling_splits,
                            sum + t[sibbling])

\* QuadTree::merge_with_sibblings(tree, maximum): what it returns or throws,
\* and the types afterwards.
merge_with_sibblings(t, tree, maximum) ==
  IF t[tree] = SPLIT_TREE \/ tree = Root
    THEN [result |-> "non-leaf", t |-> t]
    ELSE LET sum == sibblings(t, Parent(tree), maximum, 0, 0, 0)
             mean == sum \div 4
         IN  IF sum = Refused THEN [result |-> "false", t |-> t]
             ELSE IF mean \notin LeafTypes
               THEN [result |-> "invalid type", t |-> t]
               ELSE [result |-> "true",
                     t |-> [t EXCEPT ![Parent(tree)] = mean]]

\* The while condition with the comparison turned round.
LoopCondition_flipped(lv, cs) == lv # <<>> /\ cs < maximum_encoded_size

\* The while condition with >= for >.
LoopCondition_inclusive(lv, cs) == lv # <<>> /\ cs >= maximum_encoded_size

\* simplify(): the condition of the while loop.
LoopCondition(lv, cs) == lv # <<>> /\ cs > maximum_encoded_size

\* simplify(): maximum_detail_loss after the test of one iteration.
DetailLoss(last, cs, loss) == IF last = cs THEN loss + 1 ELSE loss

\* ----------------------------------------------------------------- actions

Init ==
  /\ pc = "start"
  /\ size \in Sides
  /\ matrix \in Painted(size, MaxOdd)
  /\ minimum_cell_size \in CellSizes
  /\ maximum_encoded_size \in Budgets
  /\ type = [n \in {Root} |-> UNDEFINED_TREE]
  /\ leaves = <<>>
  /\ current_size = 0
  /\ last_size = 0
  /\ maximum_detail_loss = 0
  /\ built = type
  /\ entry = type
  /\ attempt_size = 0

\* QuadTree tree(square);
Build ==
  /\ pc = "start"
  /\ type' = Construct(matrix)
  /\ built' = type'
  /\ pc' = "built"
  /\ UNCHANGED <<matrix, size, minimum_cell_size, maximum_encoded_size, leaves,
                 current_size, last_size, maximum_detail_loss, entry,
                 attempt_size>>

\* tree.merge_leaves();
MergeLeaves ==
  /\ pc = "built"
  /\ type' = merge_leaves(type, Root)
  /\ pc' = "merged"
  /\ UNCHANGED <<matrix, size, minimum_cell_size, maximum_encoded_size, leaves,
                 current_size, last_size, maximum_detail_loss, built,
                 entry, attempt_size>>

\* tree.simplify(), up to the loop, for a root whose children are allocated.
Simplify ==
  /\ pc = "merged"
  /\ HasChildren(type, Root)
  /\ leaves' = get_leaves(type, Root)
  /\ current_size' = encoded_size(type, Root)
  /\ last_size' = current_size'
  /\ maximum_detail_loss' = 0
  /\ entry' = type
  /\ pc' = "loop"
  /\ UNCHANGED <<matrix, size, minimum_cell_size, maximum_encoded_size, type,
                 built, attempt_size>>

\* tree.simplify() for a root built as a leaf: get_leaves reads child->type
\* through the four null pointers of `children`.  The behaviour is undefined;
\* the outcomes kept are the fault, the read of UNDEFINED_TREE (get_leaves
\* throws) and the read of a leaf type (a null weak_ptr is pushed).
SimplifyNull ==
  /\ pc = "merged"
  /\ ~HasChildren(type, Root)
  /\ entry' = type
  /\ \E outcome \in {"crashed", "undefined tree", "loop"} :
       /\ pc' = outcome
       /\ leaves' = IF outcome = "loop"
                      THEN <<NullNode, NullNode, NullNode, NullNode>>
                      ELSE leaves
       /\ current_size' = IF outcome = "loop" THEN encoded_size(type, Root)
                          ELSE current_size
       /\ last_size' = current_size'
  /\ maximum_detail_loss' = 0
  /\ UNCHANGED <<matrix, size, minimum_cell_size, maximum_encoded_size, type,
                 built, attempt_size>>

\* The while condition is false: simplify() returns.
Return ==
  /\ pc = "loop"
  /\ ~LoopCondition(leaves, current_size)
  /\ pc' = "done"
  /\ UNCHANGED <<matrix, size, minimum_cell_size, maximum_encoded_size, type,
                 leaves, current_size, last_size, maximum_detail_loss,
                 built, entry, attempt_size>>

\* One iteration that ends in the throw of "image is hopelessly complex".
Throw ==
  /\ pc = "loop"
  /\ LoopCondition(leaves, current_size)
  /\ current_size' = encoded_size(type, Root)
  /\ maximum_detail_loss' =
       DetailLoss(last_size, current_size', maximum_detail_loss)
  /\ maximum_detail_loss' # maximum_detail_loss
  /\ maximum_detail_loss' > DetailLossLimit
  /\ pc' = "hopelessly complex"
  /\ UNCHANGED <<matrix, size, minimum_cell_size, maximum_encoded_size, type,
                 leaves, last_size, built, entry, attempt_size>>

\* One iteration that reaches rand(): the leaf leaves[i] is chosen and
\* merge_with_sibblings is called on it.
Iterate(i) ==
  /\ pc = "loop"
  /\ LoopCondition(leaves, current_size)
  /\ i \in 1 .. Len(leaves)
  /\ leaves[i] # NullNode
  /\ current_size' = encoded_size(type, Root)
  /\ maximum_detail_loss' =
       DetailLoss(last_size, current_size', maximum_detail_loss)
  /\ ~(/\ maximum_detail_loss' # maximum_detail_loss
       /\ maximum_detail_loss' > DetailLossLimit)
  /\ attempt_size' = current_size'
  /\ LET r == merge_with_sibblings(type, leaves[i], maximum_detail_loss')
     IN  /\ type' = r.t
         /\ pc' = IF r.result \in {"true", "false"} THEN "loop" ELSE r.result
  /\ UNCHANGED <<matrix, size, minimum_cell_size, maximum_encoded_size,
                 leaves, last_size, built, entry>>

\* One iteration that chooses a null entry of the snapshot SimplifyNull left:
\* merge_with_sibblings reads tree->type through a null pointer.  Undefined
\* again: the fault, or the read of SPLIT_TREE and the throw of "non-leaf".
IterateNull(i) ==
  /\ pc = "loop"
  /\ LoopCondition(leaves, current_size)
  /\ i \in 1 .. Len(leaves)
  /\ leaves[i] = NullNode
  /\ current_size' = encoded_size(type, Root)
  /\ maximum_detail_loss' =
       DetailLoss(last_size, current_size', maximum_detail_loss)
  /\ ~(/\ maximum_detail_loss' # maximum_detail_loss
       /\ maximum_detail_loss' > DetailLossLimit)
  /\ attempt_size' = current_size'
  /\ pc' \in {"crashed", "non-leaf"}
  /\ UNCHANGED <<matrix, size, minimum_cell_size, maximum_encoded_size, type,
                 leaves, last_size, built, entry>>

\* A second call of tree.merge_leaves(), after the first: `entry` keeps the
\* types the first call left.
MergeLeavesAgain ==
  /\ pc = "merged"
  /\ entry' = type
  /\ type' = merge_leaves(type, Root)
  /\ pc' = "merged again"
  /\ UNCHANGED <<matrix, size, minimum_cell_size, maximum_encoded_size, leaves,
                 current_size, last_size, maximum_detail_loss, built,
                 attempt_size>>

\* The longest snapshot: one leaf per sample of the largest matrix.
LargestSide == CHOOSE s \in Sides : \A r \in Sides : r <= s
MaxLeaves == LargestSide * LargestSide

Next ==
  \/ Build
  \/ MergeLeaves
  \/ Simplify
  \/ SimplifyNull
  \/ Return
  \/ Throw
  \/ \E i \in 1 .. MaxLeaves : Iterate(i)
  \/ \E i \in 1 .. MaxLeaves : IterateNull(i)

\* main(): build, merge_leaves, simplify.
Spec == Init /\ [][Next]_vars

\* The steps of the loop of simplify() under fair leaf selection: the loop
\* goes on while it can, and rand() % leaves.size() does not avoid an index
\* for ever.  A step of the loop never undoes an earlier one (types only go
\* from split to leaf, maximum_detail_loss only grows, current_size only
\* shrinks), so no state is visited twice and weak fairness per index says
\* as much as strong fairness would.
Fairness ==
  /\ WF_vars(Return)
  /\ WF_vars(Throw)
  /\ \A i \in 1 .. MaxLeaves : WF_vars(Iterate(i))
  /\ \A i \in 1 .. MaxLeaves : WF_vars(IterateNull(i))

FairSpec == Init /\ [][Next]_vars /\ Fairness

\* build, then merge_leaves applied twice.
NextMerge ==
  \/ Build
  \/ MergeLeaves
  \/ MergeLeavesAgain

MergeSpec == Init /\ [][NextMerge]_vars

\* ------------------------------------------------------------------ claims

RootSize == encoded_size(type, Root)
Constructed == pc # "start"
InSimplify ==
  pc \in {"loop", "done", "hopelessly complex", "crashed", "undefined tree",
          "non-leaf", "invalid type"}
\* The root was built as a split, so its four children are allocated.
RootBuiltSplit == Constructed /\ built[Root] = SPLIT_TREE
RootBuiltLeaf == Constructed /\ built[Root] \in LeafTypes
\* The next step is one more iteration of the loop of simplify().
AtIteration == pc = "loop" /\ LoopCondition(leaves, current_size)

C2_SimplifyTerminates ==
  (pc = "loop" /\ RootBuiltSplit) ~> (pc \in {"done", "hopelessly complex"})

\* C3: for a matrix no larger than the minimum cell size (the root is built as
\* a leaf without children) the pipeline raises nothing, reads no absent
\* child, and leaves the root that leaf.
C3_LeafRootCompletes ==
  RootBuiltLeaf =>
    /\ pc \notin {"crashed", "undefined tree", "non-leaf", "invalid type",
                  "hopelessly complex"}
    /\ \A i \in 1 .. Len(leaves) : leaves[i] # NullNode
    /\ type = built

\* C4: when the root was built as a split and encoded_size() of the root is
\* within the budget as simplify() is called, simplify() chooses no leaf,
\* leaves maximum_detail_loss at 0, changes no type, and can only return.
C4_NoWorkWithinBudget ==
  (InSimplify /\ RootBuiltSplit
     /\ encoded_size(entry, Root) <= maximum_encoded_size) =>
    /\ pc \in {"loop", "done"}
    /\ ~AtIteration
    /\ attempt_size = 0
    /\ maximum_detail_loss = 0
    /\ type = entry

\* C4 witness: simplify() returned on a tree within the budget whose root is
\* still a split.
C4_Witness ==
  /\ pc = "done"
  /\ RootBuiltSplit
  /\ entry[Root] = SPLIT_TREE
  /\ encoded_size(entry, Root) <= maximum_encoded_size
  /\ attempt_size = 0

\* C5: a second merge_leaves leaves the type of every node as the first one
\* left it.
C5_MergeLeavesIdempotent ==
  pc = "merged again" => type = entry

\* C5 witness: the second call ran on a tree the first call had compacted in
\* part (some split collapsed, the root still a split).
C5_Witness ==
  /\ pc = "merged again"
  /\ entry # built
  /\ entry[Root] = SPLIT_TREE

\* C6: the mean category of every node is BLACK_TREE, GREY_TREE or
\* WHITE_TREE in every tree main() reaches, and merge_with_sibblings never
\* throws "merged to invalid type".
C6_MeanTypeValid ==
  /\ pc # "invalid type"
  /\ Constructed => \A n \in DOMAIN type : mean_type(type, n) \in LeafTypes

\* C6 witness: a split whose children differ in category, averaged to
\* GREY_TREE, after simplify() has merged.
C6_Witness ==
  /\ pc = "loop"
  /\ type # entry
  /\ type[Root] = SPLIT_TREE
  /\ mean_type(type, Root) = GREY_TREE
  /\ \E i, j \in 0 .. 3 :
       mean_type(type, Child(Root, i)) # mean_type(type, Child(Root, j))

\* C7: an iteration of the loop increments maximum_detail_loss exactly when
\* encoded_size() of the root equals the size the previous iteration recorded
\* (current_size as that iteration left it; the size before the loop for the
\* first iteration).
C7_IncrementIffNoProgress ==
  [][AtIteration =>
       maximum_detail_loss' =
         (IF RootSize = current_size THEN maximum_detail_loss + 1
                                     ELSE maximum_detail_loss)]_vars

\* C8: simplify() chooses a leaf only while encoded_size() of the root
\* exceeds the budget.
C8_NoChoiceWithinBudget ==
  attempt_size = 0 \/ attempt_size > maximum_encoded_size

\* C9: after construction a type changes only from SPLIT_TREE to a leaf
\* category: a leaf never becomes a split and never changes its category.
C9_OnlySplitToLeaf ==
  [][Constructed =>
       \A n \in DOMAIN type :
         type'[n] # type[n] =>
           type[n] = SPLIT_TREE /\ type'[n] \in LeafTypes]_vars

\* C9 witness: a leaf was chosen when the root had already been collapsed by
\* simplify(), that is a stale entry of the snapshot, below a collapsed
\* ancestor, and the split above it collapsed in that step.
C9_Witness ==
  /\ pc = "loop"
  /\ entry[Root] = SPLIT_TREE
  /\ type[Root] \in LeafTypes
  /\ attempt_size = 2
  /\ \A n \in DOMAIN type : type[n] # SPLIT_TREE
  /\ \E n \in DOMAIN type : entry[n] = SPLIT_TREE /\ n # Root

\* C10: the mean category of every node stays what it was when the tree was
\* built, through merge_leaves and every step of simplify().
C10_MeanTypeInvariant ==
  Constructed =>
    \A n \in DOMAIN type : mean_type(type, n) = mean_type(built, n)

\* C10 witness: simplify() collapsed the root of a tree built from samples
\* of different categories; the root now carries the mean of the built tree.
C10_Witness ==
  /\ pc = "done"
  /\ entry[Root] = SPLIT_TREE
  /\ type[Root] \in LeafTypes
  /\ \E n \in DOMAIN built :
       built[n] \in LeafTypes /\ built[n] # type[Root]

====
